---- MODULE Spec2Model ----
(***************************************************************************)
(* Model of the GitHub roast pipeline of src/server.py: the profile        *)
(* resolver, the GitHub data client, the input shaper, the rules-based     *)
(* generator, the AI generator, the output normaliser and the              *)
(* orchestrator github_roast.                                              *)
(*                                                                         *)
(* A Python str is a sequence of one-character strings; a character        *)
(* outside ASCII is written "U+XXXX" and counts as one character.          *)
(***************************************************************************)
EXTENDS Integers, Sequences, FiniteSets, TLC

VARIABLES
    pc,               \* position of github_roast: "start", "gather", "ai", "done"
    username_or_url,  \* the argument of github_roast
    configured,       \* GroqAIClient.is_configured()
    username,         \* the resolved username
    profile_task,     \* the three tasks created at lines 286-288
    repos_task,
    readme_task,
    gather,           \* the future of asyncio.gather at line 290
    shaped,           \* the record built at line 291
    ai_raw,           \* the completion response and what generate made of it
    result,           \* the returned string
    ret,              \* the return statement that produced it
    reqs,             \* requests sent, per endpoint
    gens,             \* generator invocations
    fn,               \* unit harness: the function under test and its stage
    arg,              \* unit harness: its argument
    out,              \* unit harness: its outcome
    twice             \* unit harness: the function applied to its own outcome

vars == << pc, username_or_url, configured, username, profile_task, repos_task,
           readme_task, gather, shaped, ai_raw, result, ret, reqs, gens,
           fn, arg, out, twice >>

orch_vars == << pc, username_or_url, configured, username, profile_task,
                repos_task, readme_task, gather, shaped, ai_raw, result, ret,
                reqs, gens >>

unit_vars == << fn, arg, out, twice >>

(***************************************************************************)
(* Python str primitives used by the source.                               *)
(***************************************************************************)

\* str.strip() with no argument strips these (the ASCII ones the model uses).
Whitespace == { " ", "\n", "\r", "\t" }

\* str.lstrip(cs), str.rstrip(cs)
LStripChars(s, cs) ==
    IF \A i \in 1..Len(s) : s[i] \in cs THEN << >>
    ELSE SubSeq(s, CHOOSE i \in 1..Len(s) :
                       s[i] \notin cs /\ \A j \in 1..(i - 1) : s[j] \in cs, Len(s))

RStripChars(s, cs) ==
    IF \A i \in 1..Len(s) : s[i] \in cs THEN << >>
    ELSE SubSeq(s, 1, CHOOSE i \in 1..Len(s) :
                          s[i] \notin cs /\ \A j \in (i + 1)..Len(s) : s[j] \in cs)

StripChars(s, cs) == RStripChars(LStripChars(s, cs), cs)

Strip(s) == StripChars(s, Whitespace)

LStrip(s) == LStripChars(s, Whitespace)

StartsWith(s, p) == Len(p) <= Len(s) /\ SubSeq(s, 1, Len(p)) = p

\* str.lower() on ASCII letters.
UPPER == << "A","B","C","D","E","F","G","H","I","J","K","L","M",
           "N","O","P","Q","R","S","T","U","V","W","X","Y","Z" >>

LOWER == << "a","b","c","d","e","f","g","h","i","j","k","l","m",
           "n","o","p","q","r","s","t","u","v","w","x","y","z" >>

LowerChar(c) ==
    IF \E i \in 1..Len(UPPER) : UPPER[i] = c
    THEN LOWER[CHOOSE i \in 1..Len(UPPER) : UPPER[i] = c]
    ELSE c

Lower(s) == [ i \in 1..Len(s) |-> LowerChar(s[i]) ]

\* 1, 2, ..., Len(s)
Positions(s) == [ i \in 1..Len(s) |-> i ]

\* The pieces of s between its breaks: the k-th break starts at index starts[k]
\* (in increasing order) and is lens[k] characters long.
Pieces(s, starts, lens) ==
    [ k \in 1..(Len(starts) + 1) |->
        SubSeq(s,
               IF k = 1 THEN 1 ELSE starts[k - 1] + lens[k - 1],
               IF k = Len(starts) + 1 THEN Len(s) ELSE starts[k] - 1) ]

\* the first index of the run of c that index i of s lies in
RunStart(s, i, c) ==
    CHOOSE j \in 1..i : (\A k \in j..i : s[k] = c) /\ (j = 1 \/ s[j - 1] # c)

\* str.split(sep) for sep = n times the character c: the occurrences are taken
\* left to right and do not overlap, so within a run of c they start at every
\* n-th character of the run
Split(s, sep) ==
    LET c == sep[1]
        n == Len(sep)
        starts == SelectSeq(Positions(s),
                      LAMBDA i : /\ i + n - 1 <= Len(s)
                                 /\ \A k \in i..(i + n - 1) : s[k] = c
                                 /\ (i - RunStart(s, i, c)) % n = 0)
    IN  Pieces(s, starts, [ k \in 1..Len(starts) |-> n ])

\* str.splitlines(): breaks at \r\n, \r and \n; no empty last line.
SplitLines(s) ==
    LET starts == SelectSeq(Positions(s),
                      LAMBDA i : /\ s[i] \in { "\n", "\r" }
                                 /\ ~(s[i] = "\n" /\ i > 1 /\ s[i - 1] = "\r"))
        lens == [ k \in 1..Len(starts) |->
                    IF /\ s[starts[k]] = "\r"
                       /\ starts[k] < Len(s)
                       /\ s[starts[k] + 1] = "\n"
                    THEN 2 ELSE 1 ]
        lines == Pieces(s, starts, lens)
    IN  IF lines[Len(lines)] = << >> THEN SubSeq(lines, 1, Len(lines) - 1) ELSE lines

\* sep.join(parts)
RECURSIVE Join(_, _)
Join(parts, sep) ==
    IF parts = << >> THEN << >>
    ELSE IF Len(parts) = 1 THEN parts[1]
    ELSE parts[1] \o sep \o Join(Tail(parts), sep)

\* s.replace("\r\n", "\n").replace("\r", "\n"): the \r of a \r\n goes, any
\* other \r becomes \n
ReplaceNewlines(s) ==
    LET kept == SelectSeq(Positions(s),
                    LAMBDA i : ~(s[i] = "\r" /\ i < Len(s) /\ s[i + 1] = "\n"))
    IN  [ k \in 1..Len(kept) |-> IF s[kept[k]] = "\r" THEN "\n" ELSE s[kept[k]] ]

\* [f(x) for x in xs if x.strip()], with f = strip
StripNonEmpty(xs) ==
    LET keep == SelectSeq(xs, LAMBDA p : Strip(p) # << >>)
    IN  [ i \in 1..Len(keep) |-> Strip(keep[i]) ]

\* xs[:n]
Take(xs, n) == SubSeq(xs, 1, IF Len(xs) < n THEN Len(xs) ELSE n)

RECURSIVE Concat(_)
Concat(xss) == IF xss = << >> THEN << >> ELSE Head(xss) \o Concat(Tail(xss))

NL == << "\n" >>
NLNL == << "\n", "\n" >>

(***************************************************************************)
(* normalize_roast_output, src/server.py lines 210-257.                    *)
(***************************************************************************)

PARAGRAPHS == 3

FILLER ==
    << "N","o","t"," ","e","n","o","u","g","h"," ","c","o","n","t","e","n","t"," ",
       "t","o"," ","r","o","a","s","t"," ","p","r","o","p","e","r","l","y","." >>

preambles ==
    { << "s","u","r","e","," >>, << "h","e","r","e"," ","i","s" >>,
      << "h","e","r","e","'","s" >>, << "h","e","r","e"," ","a","r","e" >>,
      << "o","k","a","y","," >>, << "o","k","," >>, << "i"," ","c","a","n" >>,
      << "i"," ","w","i","l","l" >>, << "l","e","t","'","s" >>, << "s","o","," >>,
      << "a","s"," ","a","n"," ","a","i" >>,
      << "d","i","s","c","l","a","i","m","e","r" >>, << "n","o","t","e",":" >> }

HasPreamble(text) == \E p \in preambles : StartsWith(Lower(LStrip(text)), p)

\* The grave accent, which the lexer does not accept inside a string.
BACKTICK == "U+0060"

\* lines 215-217
StripFences(text) ==
    IF StartsWith(Strip(text), << BACKTICK, BACKTICK, BACKTICK >>)
    THEN StripChars(Strip(text), { BACKTICK })
    ELSE text

\* lines 227-235: the lines after the first blank line
AfterFirstBlank(lines) ==
    IF \A i \in 1..Len(lines) : Strip(lines[i]) # << >> THEN << >>
    ELSE SubSeq(lines,
                1 + (CHOOSE i \in 1..Len(lines) :
                         Strip(lines[i]) = << >> /\ \A j \in 1..(i - 1) : Strip(lines[j]) # << >>),
                Len(lines))

\* the dropping without the test for a preamble
DropFirstParagraph(text) ==
    LET cleaned == Strip(Join(AfterFirstBlank(SplitLines(text)), NL))
    IN  IF cleaned # << >> THEN cleaned ELSE text

\* lines 226-236
DropPreamble(text) ==
    IF HasPreamble(text)
    THEN LET cleaned == Strip(Join(AfterFirstBlank(SplitLines(text)), NL))
         IN  IF cleaned # << >> THEN cleaned ELSE text
    ELSE text

\* line 239
NormalizeNewlines(text) ==
    Strip(ReplaceNewlines(text))

\* lines 243-251
ThreeParagraphs(paragraphs) ==
    IF Len(paragraphs) > PARAGRAPHS THEN Take(paragraphs, PARAGRAPHS)
    ELSE IF Len(paragraphs) < PARAGRAPHS
         THEN LET expanded ==
                      Concat([ i \in 1..Len(paragraphs) |->
                                  StripNonEmpty(Split(paragraphs[i], NL)) ])
              IN  IF Len(expanded) >= PARAGRAPHS THEN Take(expanded, PARAGRAPHS)
                  ELSE paragraphs
         ELSE paragraphs

\* no padding: the paragraphs as they are
PadNothing(paragraphs) == paragraphs

\* lines 254-255
RECURSIVE Pad(_)
Pad(paragraphs) ==
    IF Len(paragraphs) < PARAGRAPHS THEN Pad(Append(paragraphs, FILLER))
    ELSE paragraphs

normalize_roast_output(text) ==
    IF text = << >> THEN text
    ELSE LET t1 == StripFences(text)
             t2 == DropPreamble(t1)
             t3 == NormalizeNewlines(t2)
             paragraphs == StripNonEmpty(Split(t3, NLNL))
         IN  Join(Take(Pad(ThreeParagraphs(paragraphs)), PARAGRAPHS), NLNL)

(***************************************************************************)
(* extract_github_username, src/server.py lines 136-152.                   *)
(***************************************************************************)

DIGITS == << "0","1","2","3","4","5","6","7","8","9" >>

Range(f) == { f[i] : i \in DOMAIN f }

\* [a-zA-Z0-9]
AlNum(c) == c \in Range(LOWER) \cup Range(UPPER) \cup Range(DIGITS)

\* [a-zA-Z0-9\-]
UserChar(c) == AlNum(c) \/ c = "-"

\* {0,37} of the username group
MAX_MIDDLE == 37

\* $ : the end of the string, or just before a newline that ends it
AtEnd(s, p) == p = Len(s) + 1 \/ (p = Len(s) /\ s[p] = "\n")

\* a pattern that ends in $ alone: no trailing path accepted
RestMatchesNoPath(s, p) == AtEnd(s, p)

\* (?:/.*)?$ from position p; . is any character but a newline
RestMatches(s, p) ==
    \/ AtEnd(s, p)
    \/ /\ p <= Len(s)
       /\ s[p] = "/"
       /\ \E q \in (p + 1)..(Len(s) + 1) :
              /\ AtEnd(s, q)
              /\ \A k \in (p + 1)..(q - 1) : s[k] # "\n"

\* ([a-zA-Z0-9](?:[a-zA-Z0-9\-]{0,37}[a-zA-Z0-9])?) from position i: the last
\* positions e of the group for which the rest of the pattern matches; the
\* rest is (?:/.*)?$ in the URL patterns and $ in the bare-username pattern
GroupEnds(s, i, path) ==
    { e \in i..Len(s) :
        /\ AlNum(s[i])
        /\ \/ e = i
           \/ /\ e - i - 1 <= MAX_MIDDLE
              /\ AlNum(s[e])
              /\ \A k \in (i + 1)..(e - 1) : UserChar(s[k])
        /\ IF path THEN RestMatches(s, e + 1) ELSE AtEnd(s, e + 1) }

Max(S) == CHOOSE m \in S : \A x \in S : x <= m

\* re.match(prefix + group + rest, s, re.IGNORECASE): the group, greedy
MatchAfter(s, pat) ==
    LET ends == GroupEnds(s, Len(pat.prefix) + 1, pat.path)
    IN  IF StartsWith(Lower(s), pat.prefix) /\ ends # {}
        THEN [ matched |-> TRUE, group |-> SubSeq(s, Len(pat.prefix) + 1, Max(ends)) ]
        ELSE [ matched |-> FALSE, group |-> << >> ]

GITHUB_COM == << "g","i","t","h","u","b",".","c","o","m","/" >>
HTTP == << "h","t","t","p",":","/","/" >>
HTTPS == << "h","t","t","p","s",":","/","/" >>

\* the three patterns of lines 141-145; https? is two prefixes
patterns ==
    << [ prefix |-> HTTP \o GITHUB_COM, path |-> TRUE ],
       [ prefix |-> HTTPS \o GITHUB_COM, path |-> TRUE ],
       [ prefix |-> GITHUB_COM, path |-> TRUE ],
       [ prefix |-> << >>, path |-> FALSE ] >>

\* lines 147-152
RECURSIVE FirstMatch(_, _)
FirstMatch(s, i) ==
    IF i > Len(patterns) THEN s
    ELSE IF MatchAfter(s, patterns[i]).matched THEN MatchAfter(s, patterns[i]).group
    ELSE FirstMatch(s, i + 1)

extract_github_username(url_or_username) ==
    FirstMatch(RStripChars(Strip(url_or_username), { "/" }), 1)

(***************************************************************************)
(* JSON values as the source sees them: a key that is absent, null, an     *)
(* int, a str or a bool.  dict.get(key, default) is Get; dict.get(key) is  *)
(* Get with None.                                                          *)
(***************************************************************************)

Absent == [ t |-> "absent", i |-> 0, s |-> << >> ]
None == [ t |-> "null", i |-> 0, s |-> << >> ]
IntV(n) == [ t |-> "int", i |-> n, s |-> << >> ]
StrV(str) == [ t |-> "str", i |-> 0, s |-> str ]
BoolV(b) == [ t |-> "bool", i |-> IF b THEN 1 ELSE 0, s |-> << >> ]

Get(v, default) == IF v.t = "absent" THEN default ELSE v

\* bool(v)
Truthy(v) ==
    CASE v.t = "int" -> v.i # 0
      [] v.t = "bool" -> v.i # 0
      [] v.t = "str" -> v.s # << >>
      [] OTHER -> FALSE

RECURSIVE NatToStr(_)
NatToStr(n) ==
    IF n < 10 THEN << DIGITS[n + 1] >>
    ELSE NatToStr(n \div 10) \o << DIGITS[(n % 10) + 1] >>

IntToStr(n) == IF n < 0 THEN << "-" >> \o NatToStr(-n) ELSE NatToStr(n)

NONE ==
    << "N","o","n","e" >>

\* str(v), as an f-string formats v
Str(v) ==
    CASE v.t = "int" -> IntToStr(v.i)
      [] v.t = "str" -> v.s
      [] v.t = "bool" -> IF v.i # 0 THEN << "T","r","u","e" >> ELSE << "F","a","l","s","e" >>
      [] OTHER -> NONE

(***************************************************************************)
(* shape_roast_input, src/server.py lines 154-178.                         *)
(***************************************************************************)

REPO_CAP == 10

UNKNOWN_LOGIN ==
    << "u","n","k","n","o","w","n" >>

shape_repo(r) ==
    [ name |-> Get(r.name, None),
      description |-> Get(r.description, None),
      language |-> Get(r.language, None),
      updated_at |-> Get(r.updated_at, None),
      stargazers_count |-> Get(r.stargazers_count, IntV(0)),
      fork |-> Get(r.fork, BoolV(FALSE)),
      open_issues_count |-> Get(r.open_issues_count, IntV(0)) ]

shape_roast_input(profile, repos, readme) ==
    [ username |-> Get(profile.login, StrV(UNKNOWN_LOGIN)),
      name |-> Get(profile.name, None),
      bio |-> Get(profile.bio, None),
      company |-> Get(profile.company, None),
      location |-> Get(profile.location, None),
      followers |-> Get(profile.followers, IntV(0)),
      following |-> Get(profile.following, IntV(0)),
      public_repos |-> Get(profile.public_repos, IntV(0)),
      created_at |-> Get(profile.created_at, None),
      repos |-> [ k \in 1..Len(Take(repos, REPO_CAP)) |-> shape_repo(repos[k]) ],
      readme |-> readme ]

(***************************************************************************)
(* fallback_rules_based_roast, src/server.py lines 180-208.                *)
(***************************************************************************)

UNKNOWN ==
    << "U","n","k","n","o","w","n" >>

PARA1_A ==
    << "S","o",","," " >>

PARA1_B ==
    << ","," ","r","o","c","k","i","n","g"," ","a"," ","g","r","a","n","d"," ","t","o",
       "t","a","l"," ","o","f"," " >>

PARA1_C ==
    << " ","p","u","b","l","i","c"," ","r","e","p","o","s"," ","a","n","d"," " >>

PARA1_D ==
    << " ","f","o","l","l","o","w","e","r","s","."," ","T","h","a","t","'","s"," ","n",
       "o","t"," ","a"," ","G","i","t","H","u","b"," ","p","r","e","s","e","n","c","e",
       ","," ","t","h","a","t","'","s"," ","w","i","t","n","e","s","s"," ","p","r","o",
       "t","e","c","t","i","o","n","."," ","Y","o","u","r"," ","s","t","a","r"," ","c",
       "o","u","n","t"," ","(" >>

PARA1_E ==
    << ")"," ","s","u","g","g","e","s","t","s"," ","y","o","u","r"," ","m","o","s","t",
       " ","l","o","y","a","l"," ","f","a","n"," ","i","s"," ","t","h","e"," ","s","t",
       "a","r","g","a","z","e","r"," ","b","u","t","t","o","n"," ","y","o","u"," ","k",
       "e","e","p"," ","p","r","e","s","s","i","n","g"," ","i","n"," ","y","o","u","r",
       " ","s","l","e","e","p","." >>

PARA2_A ==
    << "L","a","n","g","u","a","g","e","s"," ","y","o","u"," ","d","a","b","b","l","e",
       " ","i","n",":"," " >>

PARA2_B ==
    << "."," ","T","h","a","t","'","s"," ","n","o","t"," ","a"," ","t","e","c","h"," ",
       "s","t","a","c","k",","," ","t","h","a","t","'","s"," ","a"," ","b","u","f","f",
       "e","t"," ","p","l","a","t","e"," ","w","h","e","r","e"," ","y","o","u"," ","t",
       "o","u","c","h","e","d"," ","e","v","e","r","y","t","h","i","n","g"," ","a","n",
       "d"," ","f","i","n","i","s","h","e","d"," ","n","o","t","h","i","n","g","."," ",
       "H","a","l","f"," ","y","o","u","r"," ","r","e","p","o","s"," ","l","o","o","k",
       " ","l","i","k","e"," ","t","u","t","o","r","i","a","l","s"," ","y","o","u"," ",
       "r","a","g","e","-","q","u","i","t"," ","a","f","t","e","r"," ","t","h","e"," ",
       "R","E","A","D","M","E","." >>

PARA3 ==
    << "Y","o","u","r"," ","p","r","o","f","i","l","e"," ","R","E","A","D","M","E"," ",
       "r","e","a","d","s"," ","l","i","k","e"," ","a"," ","m","o","t","i","v","a","t",
       "i","o","n","a","l"," ","p","o","s","t","e","r"," ","s","t","a","p","l","e","d",
       " ","t","o"," ","a"," ","T","O","D","O"," ","l","i","s","t","."," ","S","h","i",
       "p"," ","s","o","m","e","t","h","i","n","g",","," ","d","e","l","e","t","e"," ",
       "t","h","e"," ","z","o","m","b","i","e"," ","p","r","o","j","e","c","t","s",",",
       " ","a","n","d"," ","m","a","y","b","e","U+00E2","U+20AC","U+201D","j","u","s",
       "t"," ","m","a","y","b","e","U+00E2","U+20AC","U+201D","w","r","i","t","e"," ",
       "c","o","d","e"," ","p","e","o","p","l","e"," ","a","c","t","u","a","l","l","y",
       " ","w","a","n","t"," ","t","o"," ","s","t","a","r","." >>

\* line 183: sum() over the star counts; int + None and int + str raise
SumRaises(repos) == \E k \in 1..Len(repos) : repos[k].stargazers_count.t \notin { "int", "bool" }

RECURSIVE SumStars(_)
SumStars(repos) ==
    IF repos = << >> THEN 0 ELSE Head(repos).stargazers_count.i + SumStars(Tail(repos))

\* line 188
LangOf(repo) == IF Truthy(repo.language) THEN repo.language ELSE StrV(UNKNOWN)

\* lines 186-189: the dict as its items in insertion order
RECURSIVE CountLangs(_, _)
CountLangs(repos, top_langs) ==
    IF repos = << >> THEN top_langs
    ELSE LET lang == LangOf(Head(repos))
             seen == { k \in 1..Len(top_langs) : top_langs[k].lang = lang }
         IN  IF seen = {}
             THEN CountLangs(Tail(repos), Append(top_langs, [ lang |-> lang, n |-> 1 ]))
             ELSE CountLangs(Tail(repos),
                     [ k \in 1..Len(top_langs) |->
                         IF k \in seen THEN [ lang |-> lang, n |-> top_langs[k].n + 1 ]
                         ELSE top_langs[k] ])

\* line 190: sorted(..., key=count, reverse=True), which is stable
RECURSIVE InsertDesc(_, _)
InsertDesc(sorted, item) ==
    IF sorted = << >> THEN << item >>
    ELSE IF Head(sorted).n >= item.n THEN << Head(sorted) >> \o InsertDesc(Tail(sorted), item)
    ELSE << item >> \o sorted

RECURSIVE SortDesc(_, _)
SortDesc(items, acc) ==
    IF items = << >> THEN acc ELSE SortDesc(Tail(items), InsertDesc(acc, Head(items)))

TOP_LANGS == 3

\* line 191
LangsSummary(repos) ==
    LET sorted_langs == SortDesc(CountLangs(repos, << >>), << >>)
        top == Take(sorted_langs, TOP_LANGS)
    IN  IF sorted_langs = << >> THEN NONE
        ELSE Join([ k \in 1..Len(top) |->
                       Str(top[k].lang) \o << " ", "x" >> \o IntToStr(top[k].n) ],
                  << ",", " " >>)

\* the returned text, or the exception raised
fallback_rules_based_roast(name, shaped_record) ==
    IF SumRaises(shaped_record.repos)
    THEN [ raised |-> TRUE, exc |-> "TypeError", value |-> << >> ]
    ELSE LET followers == shaped_record.followers
             public_repos == shaped_record.public_repos
             stars == SumStars(shaped_record.repos)
             para1 == PARA1_A \o name \o PARA1_B \o Str(public_repos) \o PARA1_C
                      \o Str(followers) \o PARA1_D \o IntToStr(stars) \o PARA1_E
             para2 == PARA2_A \o LangsSummary(shaped_record.repos) \o PARA2_B
             para3 == PARA3
         IN  [ raised |-> FALSE, exc |-> "",
               value |-> Join(<< para1, para2, para3 >>, NLNL) ]

(***************************************************************************)
(* GitHubClient, src/server.py lines 49-92.  A response is what the HTTP   *)
(* call produced: kind "transport" is an exception raised by the client    *)
(* (connection error, timeout), kind "response" carries status and body.   *)
(***************************************************************************)

Returned(v) == [ raised |-> FALSE, exc |-> "", message |-> << >>, value |-> v ]
Raised(e, m) == [ raised |-> TRUE, exc |-> e, message |-> m, value |-> << >> ]

HTTP_OK == 200
HTTP_NOT_FOUND == 404
HTTP_ERROR == 400

NOT_FOUND ==
    << "G","i","t","H","u","b"," ","p","r","o","f","i","l","e"," ","n","o","t"," ","f",
       "o","u","n","d" >>

GITHUB_ERROR ==
    << "G","i","t","H","u","b"," ","e","r","r","o","r",":"," " >>

\* lines 60-68
fetch_profile(resp) ==
    IF resp.kind = "transport" THEN Raised("Exception", << >>)
    ELSE IF resp.status = HTTP_NOT_FOUND THEN Raised("McpError", NOT_FOUND)
    ELSE IF resp.status >= HTTP_ERROR
         THEN Raised("McpError", GITHUB_ERROR \o IntToStr(resp.status))
    ELSE Returned(resp.body)

\* lines 70-76
fetch_repos(resp) ==
    IF resp.kind = "transport" THEN Raised("Exception", << >>)
    ELSE IF resp.status >= HTTP_ERROR THEN Returned(<< >>)
    ELSE Returned(resp.body)

\* one turn of the loop without the test of the status: any response is returned
readme_attempt_any_status(resp) ==
    IF resp.kind = "transport" THEN [ returns |-> FALSE, value |-> << >> ]
    ELSE [ returns |-> TRUE, value |-> resp.body ]

\* lines 85-92, one turn of the loop: the text returned, or go on to the next url
readme_attempt(resp) ==
    IF resp.kind = "transport" THEN [ returns |-> FALSE, value |-> << >> ]
    ELSE IF resp.status = HTTP_OK THEN [ returns |-> TRUE, value |-> resp.body ]
    ELSE [ returns |-> FALSE, value |-> << >> ]

(***************************************************************************)
(* GroqAIClient.generate, src/server.py lines 105-133.  The body of a      *)
(* response is its JSON: choices is "absent", "empty" or "one"; message    *)
(* (of choices[0]) is "absent", "null" or "dict"; content is a JSON value. *)
(***************************************************************************)

AI_ERROR == << "A","I"," ","s","e","r","v","i","c","e"," ","e","r","r","o","r",":"," " >>

NOT_CONFIGURED ==
    << "G","r","o","q"," ","A","P","I"," ","i","s"," ","n","o","t"," ",
       "c","o","n","f","i","g","u","r","e","d" >>

generate(is_configured, resp) ==
    IF ~is_configured THEN Raised("McpError", NOT_CONFIGURED)
    ELSE IF resp.kind = "transport" THEN Raised("Exception", << >>)
    ELSE IF resp.status >= HTTP_ERROR
         THEN Raised("McpError", AI_ERROR \o IntToStr(resp.status))
    ELSE IF resp.body.json = "invalid" THEN Raised("Exception", << >>)
    ELSE IF resp.body.choices \in { "absent", "empty" } THEN Returned(<< >>)
    ELSE IF resp.body.message = "null" THEN Raised("Exception", << >>)
    ELSE IF resp.body.message = "absent" THEN Returned(<< >>)
    ELSE Returned(Str(Get(resp.body.content, StrV(<< >>))))

(***************************************************************************)
(* The data the environment may hand to the program.                       *)
(***************************************************************************)

\* Bounds of the model.
MaxCount == 1      \* counts reported upstream range over 0..MaxCount
MaxRepos == 2      \* repository lists of every length up to MaxRepos
MaxTok == 4        \* normaliser inputs of up to MaxTok tokens
MaxUser == 3       \* usernames of every length up to MaxUser
MaxPath == 2       \* trailing paths of up to MaxPath characters after the slash

AllSeqs(S, n) == UNION { [ 1..k -> S ] : k \in 0..n }

ProfileKeys ==
    { "login", "name", "bio", "company", "location", "followers", "following",
      "public_repos", "created_at" }

RepoKeys ==
    { "name", "description", "language", "updated_at", "stargazers_count", "fork",
      "open_issues_count" }

EmptyProfile == [ k \in ProfileKeys |-> Absent ]
EmptyRepo == [ k \in RepoKeys |-> Absent ]

CountValues == { Absent, None, StrV(<< "7" >>) } \cup { IntV(n) : n \in 0..MaxCount }

Profiles ==
    { [ EmptyProfile EXCEPT !.followers = f, !.public_repos = r ] :
          f \in CountValues, r \in { Absent, IntV(MaxCount) } }

LangValues == { None, StrV(<< "P", "y" >>), StrV(<< "G", "o" >>) }

RepoObjects ==
    { [ EmptyRepo EXCEPT !.stargazers_count = st, !.language = lg ] :
          st \in { Absent, None } \cup { IntV(n) : n \in 1..MaxCount }, lg \in LangValues }

PlainRepo == [ EmptyRepo EXCEPT !.stargazers_count = IntV(1) ]

\* more repositories than shape_roast_input keeps
LongRepoList == [ k \in 1..(REPO_CAP + MaxRepos) |-> PlainRepo ]

RepoLists == AllSeqs(RepoObjects, MaxRepos) \cup { LongRepoList }

README_TEXT == << "#", " ", "h", "i" >>

\* what the three GitHub endpoints may answer
Transport == [ kind |-> "transport", status |-> 0, body |-> << >> ]
Response(st, b) == [ kind |-> "response", status |-> st, body |-> b ]

OrchProfiles ==
    { EmptyProfile,
      [ EmptyProfile EXCEPT !.followers = None ],
      [ EmptyProfile EXCEPT !.followers = IntV(MaxCount), !.public_repos = IntV(MaxCount) ] }

OrchRepoLists ==
    { << >>, << PlainRepo >>, << [ EmptyRepo EXCEPT !.stargazers_count = None ] >>,
      LongRepoList }

ProfileResponses ==
    { Transport, Response(404, << >>), Response(500, << >>) }
        \cup { Response(200, b) : b \in OrchProfiles }

ReposResponses ==
    { Transport, Response(403, << >>) } \cup { Response(200, b) : b \in OrchRepoLists }

ReadmeResponses == { Transport, Response(404, << >>), Response(200, README_TEXT) }

\* line 313: an AI text is kept when its trimmed length exceeds this
MIN_AI_LENGTH == 50

\* texts a completion may carry: among them three paragraphs of 50 and of 51
\* characters in all, and two paragraphs that the padding brings to 50 and to 51
WORD == [ k \in 1..20 |-> "x" ]
SO == << "S", "o", ",", " " >>

AITexts ==
    { << >>,
      << " " >>,
      << "x" >>,
      << "x" >> \o NLNL \o << "y" >>,
      WORD \o NLNL \o WORD \o NLNL \o WORD,
      SO \o WORD \o NLNL \o WORD \o NLNL \o WORD \o NLNL \o WORD,
      SO \o WORD \o NL \o WORD \o NL \o WORD,
      WORD \o NLNL \o SO \o WORD \o NLNL \o WORD,
      Take(WORD, 16) \o NLNL \o Take(WORD, 14) \o NLNL \o Take(WORD, 16),
      Take(WORD, 16) \o NLNL \o Take(WORD, 15) \o NLNL \o Take(WORD, 16),
      Take(WORD, 5) \o NLNL \o Take(WORD, 4),
      Take(WORD, 5) \o NLNL \o Take(WORD, 5) }

AIBody(j, c, m, v) == [ json |-> j, choices |-> c, message |-> m, content |-> v ]

AIResponses ==
    { Transport, Response(500, << >>),
      Response(200, AIBody("invalid", "absent", "absent", Absent)),
      Response(200, AIBody("ok", "absent", "absent", Absent)),
      Response(200, AIBody("ok", "empty", "absent", Absent)),
      Response(200, AIBody("ok", "one", "absent", Absent)),
      Response(200, AIBody("ok", "one", "null", Absent)),
      Response(200, AIBody("ok", "one", "dict", Absent)),
      Response(200, AIBody("ok", "one", "dict", None)) }
        \cup { Response(200, AIBody("ok", "one", "dict", StrV(t))) : t \in AITexts }

\* arguments of github_roast
OCTO == << "a", "-", "b" >>

Inputs ==
    { << >>, << " " >>, << "\n", " " >>, << "/" >>, OCTO, << " " >> \o OCTO \o << "/" >>,
      HTTPS \o GITHUB_COM \o OCTO \o << "/" >>,
      GITHUB_COM \o OCTO \o << "/", "r" >>,
      << "a", " ", "b" >> }

(***************************************************************************)
(* github_roast, src/server.py lines 269-325.                              *)
(***************************************************************************)

MSG_EMPTY_INPUT ==
    << "U+00E2","U+0152"," ","P","l","e","a","s","e"," ","p","r","o","v","i","d","e",
       " ","a"," ","G","i","t","H","u","b"," ","u","s","e","r","n","a","m","e"," ","o",
       "r"," ","U","R","L"," ","t","o"," ","r","o","a","s","t","!" >>

MSG_INVALID ==
    << "U+00E2","U+0152"," ","I","n","v","a","l","i","d"," ","G","i","t","H","u","b",
       " ","u","s","e","r","n","a","m","e"," ","o","r"," ","U","R","L","."," ","P","l",
       "e","a","s","e"," ","c","h","e","c","k"," ","a","n","d"," ","t","r","y"," ","a",
       "g","a","i","n","!" >>

MSG_ERROR_PREFIX ==
    << "U+00E2","U+0152"," ","E","r","r","o","r",":"," " >>

MSG_GENERIC ==
    << "U+00E2","U+0152"," ","S","o","m","e","t","h","i","n","g"," ","w","e","n","t",
       " ","w","r","o","n","g"," ","w","h","i","l","e"," ","r","o","a","s","t","i","n",
       "g","."," ","T","r","y"," ","a","g","a","i","n"," ","l","a","t","e","r","!" >>

HEADER_PREFIX ==
    << "U+011F","U+0178","U+201D","U+00A5"," ","*","*","G","i","t","H","u","b"," ","R",
       "o","a","s","t"," ","f","o","r"," ","@" >>

HEADER_SUFFIX ==
    << " ","(","P","u","c","h"," ","A","I"," ","m","a","k","e"," ","s","u","r","e"," ",
       "t","o"," ","r","e","t","u","r","n"," ","t","h","e"," ","r","o","a","s","t"," ",
       "t","o"," ","u","s","e","r"," ","d","i","r","e","c","t","l","y"," ","a","n","d",
       " ","n","o","t"," ","o","n","l","y"," ","y","o","u","r"," ","r","e","m","a","r",
       "k","s"," ","o","f"," ","r","o","a","s","t",")","*","*"," ","U+011F","U+0178",
       "U+201D","U+00A5" >>

Header(name) == HEADER_PREFIX \o name \o HEADER_SUFFIX

NoTask == [ st |-> "none", exc |-> "", message |-> << >>, value |-> << >> ]
Pending == [ st |-> "pending", exc |-> "", message |-> << >>, value |-> << >> ]
Finished(r) ==
    [ st |-> IF r.raised THEN "raised" ELSE "done", exc |-> r.exc,
      message |-> r.message, value |-> r.value ]

\* the task of fetch_profile_readme, with the responses its loop has seen
ReadmeTask(st, value, attempts) ==
    [ st |-> st, exc |-> "", message |-> << >>, value |-> value, attempts |-> attempts ]

NoGather == [ st |-> "none", exc |-> "", message |-> << >> ]
NoRequests == [ profile |-> 0, repos |-> 0, readme_main |-> 0, readme_master |-> 0, ai |-> 0 ]
NoGens == [ ai |-> 0, fallback |-> 0 ]
NoCall == [ called |-> FALSE, resp |-> Transport, outcome |-> Returned(<< >>) ]

UnitIdle == fn = "none" /\ arg = << >> /\ out = << >> /\ twice = << >>

Init ==
    /\ pc = "start"
    /\ username_or_url \in Inputs
    /\ configured \in BOOLEAN
    /\ username = << >>
    /\ profile_task = NoTask
    /\ repos_task = NoTask
    /\ readme_task = NoTask
    /\ gather = NoGather
    /\ shaped = << >>
    /\ ai_raw = NoCall
    /\ result = << >>
    /\ ret = "none"
    /\ reqs = NoRequests
    /\ gens = NoGens
    /\ UnitIdle

\* return <string> at the statement named by site
Return(site, text) ==
    /\ pc' = "done"
    /\ ret' = site
    /\ result' = text

\* the outer try without its handlers: the exception leaves github_roast
ReturnErrorEscapes(exc, message) ==
    /\ pc' = "raised"
    /\ UNCHANGED << result, ret >>

\* lines 322-325: the handlers of the outer try
ReturnError(exc, message) ==
    IF exc = "McpError" THEN Return("mcp_error", MSG_ERROR_PREFIX \o message)
    ELSE Return("error", MSG_GENERIC)

\* lines 318-320, with the handlers of lines 322-325 around them
ReturnFallback(name, shaped_record) ==
    LET fallback_roast == fallback_rules_based_roast(name, shaped_record)
    IN  /\ gens' = [ gens EXCEPT !.fallback = @ + 1 ]
        /\ IF fallback_roast.raised THEN ReturnError("Exception", << >>)
           ELSE Return("fallback", Header(name) \o NLNL \o fallback_roast.value)

\* the test without the strip: only the empty string is refused
IsBlankNoStrip(text) == text = << >>

\* line 275: not username_or_url or not username_or_url.strip()
IsBlank(text) == text = << >> \/ Strip(text) = << >>

\* lines 275-290: validation, resolution, the three tasks, up to the await
Invoke ==
    /\ pc = "start"
    /\ IF IsBlank(username_or_url)
       THEN /\ Return("validation", MSG_EMPTY_INPUT)
            /\ UNCHANGED << username, profile_task, repos_task, readme_task, gather, reqs >>
       ELSE LET name == extract_github_username(Strip(username_or_url))
            IN  /\ username' = name
                /\ IF name = << >>
                   THEN /\ Return("invalid", MSG_INVALID)
                        /\ UNCHANGED << profile_task, repos_task, readme_task, gather, reqs >>
                   ELSE /\ profile_task' = Pending
                        /\ repos_task' = Pending
                        /\ readme_task' = ReadmeTask("pending_main", << >>, << >>)
                        /\ gather' = [ NoGather EXCEPT !.st = "waiting" ]
                        /\ reqs' = [ reqs EXCEPT !.profile = @ + 1, !.repos = @ + 1,
                                                 !.readme_main = @ + 1 ]
                        /\ pc' = "gather"
                        /\ UNCHANGED << result, ret >>
    /\ UNCHANGED << username_or_url, configured, shaped, ai_raw, gens, unit_vars >>

\* a wait that ends with the first child that is done
GatheredOnFirstResult(p, r, m) ==
    IF gather.st # "waiting" THEN gather
    ELSE IF \E t \in { p, r, m } : t.st = "raised"
         THEN LET t == CHOOSE t \in { p, r, m } : t.st = "raised"
              IN  [ st |-> "raised", exc |-> t.exc, message |-> t.message ]
    ELSE IF \E t \in { p, r, m } : t.st = "done" THEN [ gather EXCEPT !.st = "ok" ]
    ELSE gather

\* asyncio.gather, line 290: the first exception of a child is the outcome;
\* the result is set when the last child is done; later children change nothing
Gathered(p, r, m) ==
    IF gather.st # "waiting" THEN gather
    ELSE IF \E t \in { p, r, m } : t.st = "raised"
         THEN LET t == CHOOSE t \in { p, r, m } : t.st = "raised"
              IN  [ st |-> "raised", exc |-> t.exc, message |-> t.message ]
    ELSE IF \A t \in { p, r, m } : t.st = "done" THEN [ gather EXCEPT !.st = "ok" ]
    ELSE gather

\* the profile request completes: fetch_profile runs to its end
ProfileResponds ==
    /\ profile_task.st = "pending"
    /\ \E resp \in ProfileResponses :
           /\ profile_task' = Finished(fetch_profile(resp))
           /\ gather' = Gathered(profile_task', repos_task, readme_task)
    /\ UNCHANGED << pc, username_or_url, configured, username, repos_task, readme_task,
                    shaped, ai_raw, result, ret, reqs, gens, unit_vars >>

\* the repository request completes: fetch_repos runs to its end
ReposResponds ==
    /\ repos_task.st = "pending"
    /\ \E resp \in ReposResponses :
           /\ repos_task' = Finished(fetch_repos(resp))
           /\ gather' = Gathered(profile_task, repos_task', readme_task)
    /\ UNCHANGED << pc, username_or_url, configured, username, profile_task, readme_task,
                    shaped, ai_raw, result, ret, reqs, gens, unit_vars >>

\* the failed url is requested again
SameUrlRequested(r) == [ r EXCEPT !.readme_main = @ + 1 ]

\* line 85: the loop goes on to its second url, the master branch
NextUrlRequested(r) == [ r EXCEPT !.readme_master = @ + 1 ]

\* a README request completes: one turn of the loop of fetch_profile_readme
ReadmeResponds ==
    /\ readme_task.st \in { "pending_main", "pending_master" }
    /\ \E resp \in ReadmeResponses :
           LET a == readme_attempt(resp)
               seen == Append(readme_task.attempts, resp)
           IN  IF ~a.returns /\ readme_task.st = "pending_main"
               THEN /\ readme_task' = ReadmeTask("pending_master", << >>, seen)
                    /\ reqs' = NextUrlRequested(reqs)
                    /\ UNCHANGED gather
               ELSE /\ readme_task' = ReadmeTask("done", a.value, seen)
                    /\ gather' = Gathered(profile_task, repos_task, readme_task')
                    /\ UNCHANGED reqs
    /\ UNCHANGED << pc, username_or_url, configured, username, profile_task, repos_task,
                    shaped, ai_raw, result, ret, gens, unit_vars >>

\* lines 290-320 once the gather is settled: the handlers on an exception;
\* else the shaping, then the completion request or the rules-based roast
AfterGather ==
    /\ pc = "gather"
    /\ gather.st \in { "ok", "raised" }
    /\ IF gather.st = "raised"
       THEN /\ ReturnError(gather.exc, gather.message)
            /\ UNCHANGED << shaped, reqs, gens >>
       ELSE LET record == shape_roast_input(profile_task.value, repos_task.value,
                                            readme_task.value)
            IN  /\ shaped' = record
                /\ IF configured
                   THEN /\ pc' = "ai"
                        /\ reqs' = [ reqs EXCEPT !.ai = @ + 1 ]
                        /\ gens' = [ gens EXCEPT !.ai = @ + 1 ]
                        /\ UNCHANGED << result, ret >>
                   ELSE /\ ReturnFallback(username, record)
                        /\ UNCHANGED reqs
    /\ UNCHANGED << username_or_url, configured, username, profile_task, repos_task,
                    readme_task, gather, ai_raw, unit_vars >>

\* the test without the length: any non-empty text is kept
KeepsAnyAIText(ai_roast) == ai_roast # << >>

\* line 313: ai_roast and len(ai_roast.strip()) > 50
KeepsAIText(ai_roast) == ai_roast # << >> /\ Len(Strip(ai_roast)) > MIN_AI_LENGTH

\* lines 310-320: generate ends, its text is normalised and kept or dropped
AIResponds ==
    /\ pc = "ai"
    /\ \E resp \in AIResponses :
           LET r == generate(configured, resp)
               ai_roast == normalize_roast_output(r.value)
           IN  /\ ai_raw' = [ called |-> TRUE, resp |-> resp, outcome |-> r ]
               /\ IF ~r.raised /\ KeepsAIText(ai_roast)
                  THEN /\ Return("ai", Header(username) \o NLNL \o ai_roast)
                       /\ UNCHANGED gens
                  ELSE ReturnFallback(username, shaped)
    /\ UNCHANGED << username_or_url, configured, username, profile_task, repos_task,
                    readme_task, gather, shaped, reqs, unit_vars >>

Next == Invoke \/ ProfileResponds \/ ReposResponds \/ ReadmeResponds \/ AfterGather \/ AIResponds

Spec == Init /\ [][Next]_vars

\* the steps of github_roast itself, told by its position alone: under Spec
\* a step that leaves "start" is an Invoke step, one that leaves "gather" an
\* AfterGather step, one that leaves "ai" an AIResponds step, and each is
\* enabled exactly when the action is
LeavesStart == pc = "start" /\ pc' \in { "gather", "done" }
LeavesGather == pc = "gather" /\ gather.st \in { "ok", "raised" } /\ pc' \in { "ai", "done" }
LeavesAI == pc = "ai" /\ pc' = "done"

\* every awaited request ends, by a response or by its timeout (30 s, 15 s and
\* 60 s, lines 62, 72, 84 and 121), and the event loop runs every ready task
Fairness ==
    /\ WF_pc(LeavesStart)
    /\ WF_vars(ProfileResponds)
    /\ WF_vars(ReposResponds)
    /\ WF_vars(ReadmeResponds)
    /\ WF_pc(LeavesGather)
    /\ WF_pc(LeavesAI)

LiveSpec == Spec /\ Fairness

(***************************************************************************)
(* Unit harnesses: one pure function applied to an input drawn from a      *)
(* bounded set, github_roast being idle.                                   *)
(***************************************************************************)

OrchIdle ==
    /\ pc = "idle"
    /\ username_or_url = << >>
    /\ configured = FALSE
    /\ username = << >>
    /\ profile_task = NoTask
    /\ repos_task = NoTask
    /\ readme_task = NoTask
    /\ gather = NoGather
    /\ shaped = << >>
    /\ ai_raw = NoCall
    /\ result = << >>
    /\ ret = "none"
    /\ reqs = NoRequests
    /\ gens = NoGens

\* texts for normalize_roast_output: every sequence of up to MaxTok tokens
NormTokens ==
    { << "x" >>, << " " >>, NL, << "\r" >>, << BACKTICK, BACKTICK, BACKTICK >>,
      << "S", "o", "," >>, << "x", "\n", "\n" >> }

\* texts of three paragraphs, some of them opening with a preamble or a fence
ParagraphPool ==
    { << "x" >>, << "x", "\n", "y" >>, << "x", "\r", "y" >>,
      << "y", " ", "S", "o", "," >>, SO \o << "x" >>,
      << BACKTICK, BACKTICK, BACKTICK, "x" >> }

ThreeParagraphTexts == { Join(ps, NLNL) : ps \in [ 1..PARAGRAPHS -> ParagraphPool ] }

NormInputs == { Concat(ts) : ts \in AllSeqs(NormTokens, MaxTok) } \cup ThreeParagraphTexts

InitNormalize ==
    OrchIdle /\ fn = "normalize" /\ arg \in NormInputs /\ out = << >> /\ twice = << >>

CallNormalize ==
    /\ fn = "normalize"
    /\ fn' = "normalized"
    /\ out' = normalize_roast_output(arg)
    /\ UNCHANGED << arg, twice, orch_vars >>

\* the normalised text is normalised once more
CallNormalizeAgain ==
    /\ fn = "normalized"
    /\ fn' = "renormalized"
    /\ twice' = normalize_roast_output(out)
    /\ UNCHANGED << arg, out, orch_vars >>

NextNormalize == CallNormalize \/ CallNormalizeAgain

SpecNormalize == InitNormalize /\ [][NextNormalize]_vars

\* inputs for extract_github_username: the three forms of a reference to a
\* user, and strings of none of them
UserAlphabet == { "a", "B", "-" }

IsValidUser(u) ==
    /\ u # << >>
    /\ Len(u) <= MAX_MIDDLE + 2
    /\ AlNum(u[1])
    /\ AlNum(u[Len(u)])
    /\ \A k \in 1..Len(u) : UserChar(u[k])

LongestUser == [ k \in 1..(MAX_MIDDLE + 2) |-> IF k = 2 THEN "-" ELSE "a" ]

Users ==
    { u \in AllSeqs(UserAlphabet, MaxUser) : IsValidUser(u) } \cup { LongestUser }

\* nothing, a slash, or a path; a path holds no line break
PathAlphabet == { "r", "/", " " }
TrailingPaths == { << >> } \cup { << "/" >> \o q : q \in AllSeqs(PathAlphabet, MaxPath) }

UrlPrefixes == { HTTP \o GITHUB_COM, HTTPS \o GITHUB_COM, GITHUB_COM }

Reference(form, user, text) == [ form |-> form, user |-> user, text |-> text ]

OtherInputs ==
    { << >>, << "/" >>, << "-", "a" >>, << "a", "-" >>, << "a", " ", "b" >>,
      << " ", "-", "a", "/", "/", "\n" >>, << "a", "-", " ", "/" >>,
      << "a", "/", "r" >>, LongestUser \o << "a" >>,
      GITHUB_COM \o LongestUser \o << "a" >>,
      << "w", "w", "w", "." >> \o GITHUB_COM \o << "a" >>,
      HTTPS \o GITHUB_COM \o << "-", "a" >>, HTTPS \o GITHUB_COM,
      << " " >> \o HTTPS \o GITHUB_COM \o << "a", "-", "/", " " >> }

ExtractInputs ==
    { Reference("url", u, pre \o u \o q) : pre \in UrlPrefixes, u \in Users, q \in TrailingPaths }
        \cup { Reference("bare", u, u) : u \in Users }
        \cup { Reference("other", << >>, t) : t \in OtherInputs }

InitExtract ==
    OrchIdle /\ fn = "extract" /\ arg \in ExtractInputs /\ out = << >> /\ twice = << >>

CallExtract ==
    /\ fn = "extract"
    /\ fn' = "extracted"
    /\ out' = extract_github_username(arg.text)
    /\ UNCHANGED << arg, twice, orch_vars >>

SpecExtract == InitExtract /\ [][CallExtract]_vars

\* inputs for shape_roast_input and fallback_rules_based_roast
InitFallback ==
    /\ OrchIdle
    /\ fn = "shape"
    /\ \E p \in Profiles, rs \in RepoLists, rd \in { << >>, README_TEXT } :
           arg = [ username |-> OCTO, profile |-> p, repos |-> rs, readme |-> rd ]
    /\ out = << >>
    /\ twice = << >>

CallShape ==
    /\ fn = "shape"
    /\ fn' = "shaped"
    /\ out' = shape_roast_input(arg.profile, arg.repos, arg.readme)
    /\ UNCHANGED << arg, twice, orch_vars >>

CallFallback ==
    /\ fn = "shaped"
    /\ fn' = "roasted"
    /\ out' = fallback_rules_based_roast(arg.username, out)
    /\ UNCHANGED << arg, twice, orch_vars >>

NextFallback == CallShape \/ CallFallback

SpecFallback == InitFallback /\ [][NextFallback]_vars

(***************************************************************************)
(* Properties.                                                             *)
(***************************************************************************)

\* the paragraphs of a text: its pieces between blank lines
Paragraphs(text) == Split(text, NLNL)

\* exactly three non-empty paragraphs, one blank line between them
IsRoastText(text) ==
    /\ Len(Paragraphs(text)) = 3
    /\ \A k \in 1..Len(Paragraphs(text)) :
           /\ Paragraphs(text)[k] # << >>
           /\ Strip(Paragraphs(text)[k]) = Paragraphs(text)[k]

\* the result is the header for the resolved username, a blank line, a body
HasHeader == StartsWith(result, Header(username) \o NLNL)
Body == SubSeq(result, Len(Header(username)) + 3, Len(result))

\* github_roast has returned after a gather that gave three results
FetchedAndDone == pc = "done" /\ gather.st = "ok"

\* what the rules-based generator makes of this invocation's data
RulesRoast == fallback_rules_based_roast(username, shaped)

\* C1 as stated: for every input string, the empty one included,
\* normalize_roast_output returns exactly three non-empty paragraphs separated
\* by one blank line.
C1_NormalizeAlwaysThreeParagraphs == fn = "normalized" => IsRoastText(out)

\* C1 as amended: for every non-empty input string normalize_roast_output
\* returns exactly three non-empty paragraphs separated by one blank line; the
\* empty string is returned as it is.
C1_NormalizeNonEmptyThreeParagraphs ==
    fn = "normalized" => IF arg = << >> THEN out = << >> ELSE IsRoastText(out)

\* a single paragraph has been padded to three
C1_Witness ==
    /\ fn = "normalized"
    /\ arg = << "x" >>
    /\ out = << "x" >> \o NLNL \o FILLER \o NLNL \o FILLER

\* C2: when github_roast returns and the profile fetch has answered 404, the
\* result is the profile-not-found message and no generator has been invoked,
\* whatever the other two fetches did and in whatever order.
C2_ProfileNotFoundWins ==
    [][ ( /\ pc = "gather"
          /\ pc' = "done"
          /\ profile_task.st = "raised"
          /\ profile_task.message = NOT_FOUND )
        => ( /\ result' = MSG_ERROR_PREFIX \o NOT_FOUND
             /\ gens' = NoGens ) ]_vars

\* the completion call failed: no configuration, a transport error or timeout,
\* an error status, or a response without a usable text
AIFailure ==
    \/ ~configured
    \/ /\ ai_raw.called
       /\ \/ ai_raw.resp.kind = "transport"
          \/ ai_raw.resp.status >= HTTP_ERROR
          \/ ai_raw.resp.body.json = "invalid"
          \/ ai_raw.resp.body.choices # "one"
          \/ ai_raw.resp.body.message # "dict"
          \/ ai_raw.resp.body.content.t # "str"

\* C3: after three successful fetches, every failure of the AI path ends in
\* the header followed by the rules-based roast: no error message, no AI text.
\* (Data on which the rules-based generator itself raises is C7's matter.)
C3_AIFailureFallsBack ==
    (FetchedAndDone /\ AIFailure /\ ~RulesRoast.raised)
        => ( /\ ret = "fallback"
             /\ result = Header(username) \o NLNL \o RulesRoast.value )

\* C4: once the fetch stage is through, github_roast returns the header and a
\* three-paragraph body, never an error message, whatever the fetched objects
\* hold.
C4_FetchedDataAlwaysRoasted ==
    FetchedAndDone => (ret \in { "ai", "fallback" } /\ HasHeader /\ IsRoastText(Body))

\* C5: when the profile fetch succeeds, a failed repository or README fetch
\* resolves to an empty value and the invocation goes on to a roast.
\* (Data on which the rules-based generator itself raises is C7's matter.)
C5_OptionalFetchFailuresAbsorbed ==
    (pc = "done" /\ profile_task.st = "done")
        => ( /\ repos_task.st # "raised"
             /\ readme_task.st # "raised"
             /\ gather.st = "ok"
             /\ (RulesRoast.raised \/ ret \in { "ai", "fallback" }) )

\* C6: with the AI generator not configured and the fetch stage through, the
\* body of the result is the output of fallback_rules_based_roast for the
\* resolved username and the shaped record, and no completion call is made.
C6_UnconfiguredUsesFallback ==
    (FetchedAndDone /\ ~configured)
        => ( /\ ~RulesRoast.raised
             /\ result = Header(username) \o NLNL \o RulesRoast.value
             /\ reqs.ai = 0
             /\ gens.ai = 0 )

\* C7: for every record shape_roast_input produces, fallback_rules_based_roast
\* returns three paragraphs separated by one blank line and does not raise.
C7_FallbackNeverRaises ==
    fn = "roasted" => (~out.raised /\ IsRoastText(out.value))

\* C8: on both generation paths no paragraph of the returned roast body begins
\* with one of the preamble phrases.
C8_NoParagraphBeginsWithPreamble ==
    (pc = "done" /\ ret \in { "ai", "fallback" })
        => \A k \in 1..Len(Paragraphs(Body)) : ~HasPreamble(Paragraphs(Body)[k])

\* C9: for an input of the form http(s)://github.com/<user>, github.com/<user>
\* (each with an optional trailing slash or path) or a bare valid <user>,
\* extract_github_username returns exactly <user>.
C9_ExtractReturnsUser ==
    (fn = "extracted" /\ arg.form \in { "url", "bare" }) => out = arg.user

\* a URL with a trailing path and a hyphenated user has been resolved
C9_Witness ==
    /\ fn = "extracted"
    /\ arg.form = "url"
    /\ arg.user = << "a", "-", "B" >>
    /\ arg.text = HTTPS \o GITHUB_COM \o << "a", "-", "B", "/", "r", "/" >>
    /\ out = << "a", "-", "B" >>

\* C10: for an empty or whitespace-only input github_roast goes from its start
\* straight to returning the validation message: no task, no request to GitHub
\* or to the completion API, no generator call, no other position.
C10_BlankInputStopsAtValidation ==
    (\A i \in 1..Len(username_or_url) : username_or_url[i] \in Whitespace)
        => ( /\ pc \in { "start", "done" }
             /\ reqs = NoRequests
             /\ gens = NoGens
             /\ profile_task = NoTask /\ repos_task = NoTask /\ readme_task = NoTask
             /\ gather = NoGather
             /\ pc = "done" => (ret = "validation" /\ result = MSG_EMPTY_INPUT) )

\* a whitespace-only input has been answered
C10_Witness ==
    /\ pc = "done"
    /\ username_or_url = << "\n", " " >>
    /\ ret = "validation"
    /\ result = MSG_EMPTY_INPUT

\* the failure glyph that opens every validation and error message
FAILURE_GLYPH == << "U+00E2", "U+0152" >>

\* the result is of one of the three kinds of C11
ResultIsMessageOrRoast ==
    \/ ret \in { "validation", "invalid" } /\ result \in { MSG_EMPTY_INPUT, MSG_INVALID }
    \/ ret \in { "mcp_error", "error" } /\ StartsWith(result, FAILURE_GLYPH \o << " " >>)
    \/ ret \in { "ai", "fallback" } /\ HasHeader /\ Body # << >>

\* C11: every invocation of github_roast, whatever its external calls do,
\* ends by returning; it returns once, and what it returns is a validation
\* message, an error message that opens with the failure glyph, or the header
\* followed by a roast; no exception leaves it.
C11_AlwaysReturnsOneString ==
    /\ <>(pc = "done")
    /\ [](pc \in { "start", "gather", "ai", "done" })
    /\ [](pc = "done" => ResultIsMessageOrRoast)
    /\ [][pc = "done" => (pc' = "done" /\ result' = result /\ ret' = ret)]_vars

\* an exception of the repository fetch has been turned into the generic message
C11_Witness ==
    /\ pc = "done"
    /\ repos_task.st = "raised"
    /\ ret = "error"
    /\ result = MSG_GENERIC

\* three clean paragraphs: a roast text none of whose paragraphs opens with a
\* preamble phrase or a fenced-code marker
CleanParagraphs(text) ==
    /\ IsRoastText(text)
    /\ \A k \in 1..Len(Paragraphs(text)) :
           /\ ~HasPreamble(Paragraphs(text)[k])
           /\ ~StartsWith(Paragraphs(text)[k], << BACKTICK, BACKTICK, BACKTICK >>)

\* C12: when x is already three clean paragraphs separated by one blank
\* line, normalising the normalised text gives the same three paragraphs as
\* normalising x.
C12_NormalizeIdempotentOnClean ==
    (fn = "renormalized" /\ CleanParagraphs(arg))
        => (twice = out /\ Paragraphs(twice) = Paragraphs(out) /\ IsRoastText(out))

\* three clean paragraphs, one of two lines, have been normalised twice
C12_Witness ==
    /\ fn = "renormalized"
    /\ arg = << "x", "\n", "y" >> \o NLNL \o << "x" >> \o NLNL \o << "y", " ", "S", "o", "," >>
    /\ CleanParagraphs(arg)
    /\ out = arg
    /\ twice = arg

\* what follows the first blank line of a text whose leading whitespace,
\* leading blank lines included, is ignored
AfterPreamble(text) ==
    NormalizeNewlines(Join(AfterFirstBlank(SplitLines(LStrip(text))), NL))

\* C13: when the text begins, case and leading whitespace (leading blank
\* lines included) ignored, with a preamble phrase, everything up to and
\* including the first blank line is dropped: the result opens with what
\* follows that blank line and the preamble text is not in it.  Stated for the
\* texts in which something follows the blank line; where nothing does, line
\* 236 keeps the text as it is.
C13_PreambleDropped ==
    (fn = "normalized" /\ HasPreamble(arg) /\ AfterPreamble(arg) # << >>)
        => StartsWith(AfterPreamble(arg), Paragraphs(out)[1])

\* the completion call returned a text and its normalised, trimmed form is
\* longer than 50 characters
AITextLongEnough ==
    /\ ai_raw.called
    /\ ~ai_raw.outcome.raised
    /\ Len(Strip(normalize_roast_output(ai_raw.outcome.value))) > 50

\* C14: after a successful fetch stage with the AI generator configured,
\* github_roast returns the AI roast exactly when the AI call succeeded and the
\* trimmed normalised AI text is longer than 50 characters; otherwise, a length
\* of 50 or less included, the result is the rules-based roast.
C14_AIRoastIffLongEnough ==
    (FetchedAndDone /\ configured)
        => IF AITextLongEnough
           THEN /\ ret = "ai"
                /\ result = Header(username) \o NLNL
                                 \o normalize_roast_output(ai_raw.outcome.value)
           ELSE /\ ret = "fallback"
                /\ ~RulesRoast.raised
                /\ result = Header(username) \o NLNL \o RulesRoast.value

\* a non-negative integer
IsCount(v) == v.t = "int" /\ v.i >= 0

\* C15: whatever the upstream profile and repository objects hold (fields
\* absent, null or of the wrong type), every count field of the record built by
\* shape_roast_input is a non-negative integer, no field is left unset, and
\* the record holds at most 10 repositories.
C15_ShapedCountsAreNumbers ==
    fn = "shaped"
        => ( /\ IsCount(out.followers)
             /\ IsCount(out.following)
             /\ IsCount(out.public_repos)
             /\ \A f \in { "username", "name", "bio", "company", "location", "created_at" } :
                    out[f] # Absent
             /\ Len(out.repos) <= 10
             /\ \A k \in 1..Len(out.repos) :
                    /\ IsCount(out.repos[k].stargazers_count)
                    /\ IsCount(out.repos[k].open_issues_count)
                    /\ \A f \in RepoKeys : out.repos[k][f] # Absent )

\* a response with status 200
Is200(resp) == resp.kind = "response" /\ resp.status = 200

\* C16: fetch_profile_readme requests the main branch first, and the master
\* branch only if the main attempt raised or did not return status 200; it
\* returns the body of the first 200 response, the empty string if both
\* attempts fail or raise, and it never raises.
C16_ReadmeMainThenMaster ==
    LET seen == readme_task.attempts
    IN  readme_task # NoTask
            => ( /\ readme_task.st \in { "pending_main", "pending_master", "done" }
                 /\ reqs.readme_main = 1
                 /\ reqs.readme_master = (IF readme_task.st = "pending_main" THEN 0
                                          ELSE IF Is200(seen[1]) THEN 0 ELSE 1)
                 /\ readme_task.st = "pending_main" => seen = << >>
                 /\ readme_task.st = "pending_master" => (Len(seen) = 1 /\ ~Is200(seen[1]))
                 /\ readme_task.st = "done"
                        => IF Is200(seen[1])
                           THEN Len(seen) = 1 /\ readme_task.value = seen[1].body
                           ELSE /\ Len(seen) = 2
                                /\ readme_task.value =
                                       (IF Is200(seen[2]) THEN seen[2].body ELSE << >>) )

\* the main branch answered 404, the master branch 200 with the README
C16_Witness ==
    /\ readme_task.st = "done"
    /\ Len(readme_task.attempts) = 2
    /\ readme_task.attempts[1].status = 404
    /\ Is200(readme_task.attempts[2])
    /\ readme_task.value = README_TEXT
    /\ reqs.readme_master = 1

\* the trimmed input matches none of the patterns of lines 141-145
NoPatternMatches(text) ==
    \A i \in 1..Len(patterns) :
        ~MatchAfter(RStripChars(Strip(text), { "/" }), patterns[i]).matched

\* t is s without some whitespace at its start and some whitespace and
\* slashes at its end
IsTrimOf(t, s) ==
    \E i \in 1..(Len(s) + 1) : \E j \in (i - 1)..Len(s) :
        /\ t = SubSeq(s, i, j)
        /\ \A k \in 1..(i - 1) : s[k] \in Whitespace
        /\ \A k \in (j + 1)..Len(s) : s[k] \in Whitespace \cup { "/" }

\* C17: for an input that matches none of the patterns, extract_github_username
\* returns the input without its surrounding whitespace and trailing slashes:
\* the returned string has no leading or trailing whitespace and no trailing
\* slash.
C17_PassthroughIsTrimmed ==
    (fn = "extracted" /\ NoPatternMatches(arg.text))
        => ( /\ IsTrimOf(out, arg.text)
             /\ out # << >> => ( /\ out[1] \notin Whitespace
                                 /\ out[Len(out)] \notin Whitespace \cup { "/" } ) )

\* C18: within one invocation no external call is retried, whatever fails:
\* the profile endpoint, the repository endpoint, each README branch url and
\* the completion API are each requested at most once.
C18_NoRetries ==
    /\ reqs.profile <= 1
    /\ reqs.repos <= 1
    /\ reqs.readme_main <= 1
    /\ reqs.readme_master <= 1
    /\ reqs.ai <= 1
    /\ readme_task # NoTask
           => Len(readme_task.attempts) <= reqs.readme_main + reqs.readme_master

\* both README requests and the completion request have failed, and each was
\* made once
C18_Witness ==
    /\ pc = "done"
    /\ readme_task.st = "done"
    /\ Len(readme_task.attempts) = 2
    /\ ~Is200(readme_task.attempts[2])
    /\ ai_raw.called
    /\ ai_raw.outcome.raised
    /\ reqs = [ profile |-> 1, repos |-> 1, readme_main |-> 1, readme_master |-> 1, ai |-> 1 ]

\* a task that has been created and has not ended
InFlight(task) == task.st \in { "pending", "pending_main", "pending_master" }

\* C19 as stated: when github_roast returns, in any terminal state, none of
\* the three fetch tasks it created is still in flight.
C19_NoTaskInFlightAtReturn ==
    pc = "done"
        => (~InFlight(profile_task) /\ ~InFlight(repos_task) /\ ~InFlight(readme_task))

\* C19 as amended: the await of line 290 ends with results only when all three
\* tasks have completed, and with an exception as soon as one task has raised;
\* so when github_roast returns after a fetch stage that succeeded no fetch
\* task is in flight, and when it returns an error message after a failed
\* fetch the failed task has ended, while the other tasks, which are neither
\* awaited nor cancelled, may still be in flight.
C19_TasksDoneUnlessFetchRaised ==
    /\ gather.st = "ok"
           => (profile_task.st = "done" /\ repos_task.st = "done" /\ readme_task.st = "done")
    /\ gather.st = "raised"
           => \E t \in { profile_task, repos_task, readme_task } :
                  t.st = "raised" /\ t.exc = gather.exc
    /\ (pc = "done" /\ profile_task # NoTask)
           => ( /\ gather.st \in { "ok", "raised" }
                /\ gather.st = "raised" => ret \in { "mcp_error", "error" } )
    /\ \A t \in { profile_task, repos_task, readme_task } :
           t.st \in { "none", "pending", "pending_main", "pending_master", "done", "raised" }

\* github_roast has returned the not-found message while the repository and
\* README requests are still in flight
C19_Witness ==
    /\ pc = "done"
    /\ ret = "mcp_error"
    /\ profile_task.st = "raised"
    /\ InFlight(repos_task)
    /\ InFlight(readme_task)

\* the fragments of a text after the split on blank lines and the split on
\* line breaks (lines 240-251), before any padding
Fragments(text) ==
    ThreeParagraphs(StripNonEmpty(Split(NormalizeNewlines(DropPreamble(StripFences(text))),
                                        NLNL)))

\* the total length of the fragments of a text
RECURSIVE TotalLen(_)
TotalLen(fragments) ==
    IF fragments = << >> THEN 0 ELSE Len(Head(fragments)) + TotalLen(Tail(fragments))

\* the fetch stage is through and generate has returned a non-empty text of
\* fewer than three fragments
ShortAIText ==
    /\ FetchedAndDone
    /\ ai_raw.called
    /\ ~ai_raw.outcome.raised
    /\ ai_raw.outcome.value # << >>
    /\ Len(Fragments(ai_raw.outcome.value)) < 3

====
